---- MODULE Spec2Model ----
(***************************************************************************)
(* State-machine model of src/blockchain.py: class Block (compute_hash)    *)
(* and class Blockchain (create_genesis_block, proof_of_work, add_block,   *)
(* is_chain_valid, tamper_with_block).                                     *)
(*                                                                         *)
(* Abstractions, all stated here:                                          *)
(*  - hashlib.sha256(...).hexdigest() is a deterministic function to a     *)
(*    string of HashLen hex characters (64 in the program).  A hex string  *)
(*    is a sequence of digits 0..15, so '0' * n is a sequence of n zeros.  *)
(*    The function is injective in each field separately, which is the     *)
(*    collision resistance the program relies on.                          *)
(*  - a payload is named by its Python repr; json.dumps is modelled by     *)
(*    what it writes, so the list [1, 2] and the tuple (1, 2), different   *)
(*    Python values, serialise to the same text.                           *)
(*  - time.time() is any value of Times; the elapsed time returned by      *)
(*    proof_of_work (a difference of two clock reads) is not modelled.     *)
(*  - proof_of_work is an unbounded loop: one action per iteration.  The   *)
(*    initial state is the one in which the constructor has built the      *)
(*    genesis Block (line 46) and is about to mine it, because for some    *)
(*    difficulties construction never returns.                             *)
(*  - call, ret and before are the caller's view: the last call made, what *)
(*    the last completed call returned or raised, and the chain as it was  *)
(*    when the last call was made.                                         *)
(***************************************************************************)
EXTENDS Integers, Sequences, FiniteSets

VARIABLES chain, difficulty, pc, new_block, call, ret, before

vars == <<chain, difficulty, pc, new_block, call, ret, before>>

----------------------------------------------------------------------------
(* Bounds of the model *)

MaxLen == 3          \* add_block is not called once the chain has MaxLen blocks
MaxTime == 2         \* time.time() returns a value in 1..MaxTime
MaxDifficulty == 3   \* Blockchain(difficulty) with difficulty in 0..MaxDifficulty
MaxNonce == 260      \* the mining loop is not followed beyond this nonce
MaxArb == 3          \* longest chain of SpecValidate
MaxStart == 2        \* largest starting nonce of SpecMine

(* Length of a hex digest: 64 for SHA-256, HashLen in the model *)
HashLen == 2

HexBase == 16

Times == 1..MaxTime

GenesisData == "'Genesis Block'"

Payloads == {"'A'", "[1, 2]", "(1, 2)"}

----------------------------------------------------------------------------
(* Block.compute_hash *)

\* json.dumps of the data field: a tuple is written as a JSON array
JsonData(data) ==
    CASE data = "'Genesis Block'" -> "\"Genesis Block\""
      [] data = "'A'"             -> "\"A\""
      [] data = "[1, 2]"          -> "[1,2]"
      [] data = "(1, 2)"          -> "[1,2]"

\* json.dumps(..., sort_keys=True): data, index, nonce, previous_hash, timestamp
JsonDumps(b) ==
    <<JsonData(b.data), b.index, b.nonce, b.previous_hash, b.timestamp>>

RECURSIVE HexValue(_)
HexValue(h) ==
    IF h = <<>> THEN 0 ELSE HexValue(SubSeq(h, 1, Len(h) - 1)) * HexBase + h[Len(h)]

RECURSIVE Pow(_, _)
Pow(b, n) == IF n = 0 THEN 1 ELSE b * Pow(b, n - 1)

RECURSIVE HexDigest(_, _)
HexDigest(v, n) ==
    IF n = 0 THEN <<>> ELSE Append(HexDigest(v \div HexBase, n - 1), v % HexBase)

TextCode(s) ==
    CASE s = "\"Genesis Block\"" -> 0
      [] s = "\"A\""             -> 1
      [] s = "[1,2]"             -> 2

Sha256(s) ==
    HexDigest((97 + 45 * TextCode(s[1]) + 37 * s[2] + 11 * s[3]
                  + 7 * HexValue(s[4]) + 83 * s[5]) % Pow(HexBase, HashLen),
              HashLen)

ComputeHash(b) == Sha256(JsonDumps(b))

\* Block.__init__ leaving the hash empty until the block is mined
BlockNoHash(index, timestamp, data, previous_hash, nonce) ==
    [index |-> index, timestamp |-> timestamp, data |-> data,
     previous_hash |-> previous_hash, nonce |-> nonce, hash |-> <<>>]

\* Block.__init__
Block(index, timestamp, data, previous_hash, nonce) ==
    LET b == [index |-> index, timestamp |-> timestamp, data |-> data,
              previous_hash |-> previous_hash, nonce |-> nonce, hash |-> <<>>]
    IN  [b EXCEPT !.hash = ComputeHash(b)]

----------------------------------------------------------------------------
(* Blockchain *)

\* '0' * self.difficulty
Target(d) == [i \in 1..d |-> 0]

\* str.startswith
StartsWith(s, prefix) ==
    /\ Len(prefix) <= Len(s)
    /\ SubSeq(s, 1, Len(prefix)) = prefix

\* the local new_block / genesis when no block is being mined
NoBlock == [index |-> -1, timestamp |-> 0, data |-> "", previous_hash |-> <<>>,
            nonce |-> 0, hash |-> <<>>]

NoRet == [raised |-> "", ok |-> TRUE, message |-> "", index |-> -1,
          hash |-> <<>>, nonce |-> 0, average |-> <<0, 1>>]

Call(op, index, data) == [op |-> op, index |-> index, data |-> data]

\* Blockchain.__init__ up to the Block(...) of create_genesis_block
Init ==
    /\ chain = <<>>
    /\ difficulty \in 0..MaxDifficulty
    /\ \E t \in Times : new_block = Block(0, t, GenesisData, <<0>>, 0)
    /\ pc = "create_genesis_block"
    /\ call = Call("__init__", 0, "")
    /\ ret = NoRet
    /\ before = chain

\* self.chain[-1]
last_block == chain[Len(chain)]

\* add_block linking the new block to the tail's previous_hash
AddBlockLinksPrev ==
    /\ pc = "idle"
    /\ Len(chain) < MaxLen
    /\ \E data \in Payloads, t \in Times :
         /\ new_block' = Block(last_block.index + 1, t, data,
                               last_block.previous_hash, 0)
         /\ call' = Call("add_block", 0, data)
    /\ pc' = "add_block"
    /\ before' = chain
    /\ UNCHANGED <<chain, difficulty, ret>>

\* add_block linking the new block to the tail's recomputed hash
AddBlockRecomputedLink ==
    /\ pc = "idle"
    /\ Len(chain) < MaxLen
    /\ \E data \in Payloads, t \in Times :
         /\ new_block' = Block(last_block.index + 1, t, data,
                               ComputeHash(last_block), 0)
         /\ call' = Call("add_block", 0, data)
    /\ pc' = "add_block"
    /\ before' = chain
    /\ UNCHANGED <<chain, difficulty, ret>>

\* add_block giving the new block the index of the tail
AddBlockSameIndex ==
    /\ pc = "idle"
    /\ Len(chain) < MaxLen
    /\ \E data \in Payloads, t \in Times :
         /\ new_block' = Block(last_block.index, t, data, last_block.hash, 0)
         /\ call' = Call("add_block", 0, data)
    /\ pc' = "add_block"
    /\ before' = chain
    /\ UNCHANGED <<chain, difficulty, ret>>

\* add_block storing the recomputed hash of the tail before it links to it
AddBlockRehashTail ==
    /\ pc = "idle"
    /\ Len(chain) < MaxLen
    /\ \E data \in Payloads, t \in Times :
         /\ new_block' = Block(last_block.index + 1, t, data,
                               ComputeHash(last_block), 0)
         /\ call' = Call("add_block", 0, data)
    /\ chain' = [chain EXCEPT ![Len(chain)].hash = ComputeHash(last_block)]
    /\ pc' = "add_block"
    /\ before' = chain
    /\ UNCHANGED <<difficulty, ret>>

\* add_block up to the call of proof_of_work
AddBlock ==
    /\ pc = "idle"
    /\ Len(chain) < MaxLen
    /\ \E data \in Payloads, t \in Times :
         /\ new_block' = Block(last_block.index + 1, t, data, last_block.hash, 0)
         /\ call' = Call("add_block", 0, data)
    /\ pc' = "add_block"
    /\ before' = chain
    /\ UNCHANGED <<chain, difficulty, ret>>

\* proof_of_work incrementing the nonce before it tests the hash
ProofOfWorkPostInc ==
    /\ pc \in {"create_genesis_block", "add_block"}
    /\ LET h == ComputeHash(new_block)
           mined == [new_block EXCEPT !.hash = h, !.nonce = @ + 1]
       IN  IF StartsWith(h, Target(difficulty))
           THEN /\ chain' = Append(chain, mined)
                /\ new_block' = NoBlock
                /\ pc' = "idle"
                /\ ret' = IF pc = "add_block"
                          THEN [NoRet EXCEPT !.index = mined.index,
                                             !.hash = mined.hash,
                                             !.nonce = mined.nonce]
                          ELSE NoRet
           ELSE /\ new_block.nonce < MaxNonce
                /\ new_block' = mined
                /\ UNCHANGED <<chain, pc, ret>>
    /\ UNCHANGED <<difficulty, call, before>>

\* proof_of_work with a target one character short
ProofOfWorkShortTarget ==
    /\ pc \in {"create_genesis_block", "add_block"}
    /\ LET h == ComputeHash(new_block)
           mined == [new_block EXCEPT !.hash = h]
       IN  IF StartsWith(h, Target(difficulty - 1))
           THEN /\ chain' = Append(chain, mined)
                /\ new_block' = NoBlock
                /\ pc' = "idle"
                /\ ret' = IF pc = "add_block"
                          THEN [NoRet EXCEPT !.index = mined.index,
                                             !.hash = mined.hash,
                                             !.nonce = mined.nonce]
                          ELSE NoRet
           ELSE /\ new_block.nonce < MaxNonce
                /\ new_block' = [mined EXCEPT !.nonce = @ + 1]
                /\ UNCHANGED <<chain, pc, ret>>
    /\ UNCHANGED <<difficulty, call, before>>

\* proof_of_work testing the hash the block came with, never recomputed
ProofOfWorkStaleHash ==
    /\ pc \in {"create_genesis_block", "add_block"}
    /\ LET h == new_block.hash
           mined == [new_block EXCEPT !.hash = h]
       IN  IF StartsWith(h, Target(difficulty))
           THEN /\ chain' = Append(chain, mined)
                /\ new_block' = NoBlock
                /\ pc' = "idle"
                /\ ret' = IF pc = "add_block"
                          THEN [NoRet EXCEPT !.index = mined.index,
                                             !.hash = mined.hash,
                                             !.nonce = mined.nonce]
                          ELSE NoRet
           ELSE /\ new_block.nonce < MaxNonce
                /\ new_block' = [mined EXCEPT !.nonce = @ + 1]
                /\ UNCHANGED <<chain, pc, ret>>
    /\ UNCHANGED <<difficulty, call, before>>

\* proof_of_work incrementing the nonce before its first test
ProofOfWorkSkipsStart ==
    /\ pc \in {"create_genesis_block", "add_block"}
    /\ new_block.nonce < MaxNonce
    /\ LET next == [new_block EXCEPT !.nonce = @ + 1]
           h == ComputeHash(next)
           mined == [next EXCEPT !.hash = h]
       IN  IF StartsWith(h, Target(difficulty))
           THEN /\ chain' = Append(chain, mined)
                /\ new_block' = NoBlock
                /\ pc' = "idle"
                /\ ret' = IF pc = "add_block"
                          THEN [NoRet EXCEPT !.index = mined.index,
                                             !.hash = mined.hash,
                                             !.nonce = mined.nonce]
                          ELSE NoRet
           ELSE /\ new_block' = mined
                /\ UNCHANGED <<chain, pc, ret>>
    /\ UNCHANGED <<difficulty, call, before>>

\* one iteration of the while loop of proof_of_work on new_block; when the
\* loop returns, the rest of the caller (create_genesis_block or add_block)
ProofOfWork ==
    /\ pc \in {"create_genesis_block", "add_block"}
    /\ LET h == ComputeHash(new_block)
           mined == [new_block EXCEPT !.hash = h]
       IN  IF StartsWith(h, Target(difficulty))
           THEN /\ chain' = Append(chain, mined)
                /\ new_block' = NoBlock
                /\ pc' = "idle"
                /\ ret' = IF pc = "add_block"
                          THEN [NoRet EXCEPT !.index = mined.index,
                                             !.hash = mined.hash,
                                             !.nonce = mined.nonce]
                          ELSE NoRet
           ELSE /\ new_block.nonce < MaxNonce
                /\ new_block' = [mined EXCEPT !.nonce = @ + 1]
                /\ UNCHANGED <<chain, pc, ret>>
    /\ UNCHANGED <<difficulty, call, before>>

Result(ok, message, index) ==
    [NoRet EXCEPT !.ok = ok, !.message = message, !.index = index]

\* the for loop of is_chain_valid from position i (1-based) on
RECURSIVE ValidFrom(_, _, _)
ValidFrom(c, d, i) ==
    IF i > Len(c) THEN Result(TRUE, "Chain is valid.", -1)
    ELSE LET current == c[i]
             previous == c[i - 1]
         IN  IF current.previous_hash # previous.hash
             THEN Result(FALSE, "previous_hash mismatch.", current.index)
             ELSE IF ComputeHash(current) # current.hash
             THEN Result(FALSE, "hash mismatch.", current.index)
             ELSE IF ~StartsWith(current.hash, Target(d))
             THEN Result(FALSE, "does not meet difficulty.", current.index)
             ELSE ValidFrom(c, d, i + 1)

\* is_chain_valid without the recomputation of the hash
RECURSIVE ValidFromNoRecompute(_, _, _)
ValidFromNoRecompute(c, d, i) ==
    IF i > Len(c) THEN Result(TRUE, "Chain is valid.", -1)
    ELSE LET current == c[i]
             previous == c[i - 1]
         IN  IF current.previous_hash # previous.hash
             THEN Result(FALSE, "previous_hash mismatch.", current.index)
             ELSE IF ~StartsWith(current.hash, Target(d))
             THEN Result(FALSE, "does not meet difficulty.", current.index)
             ELSE ValidFromNoRecompute(c, d, i + 1)

IsChainValidNoRecompute(c, d) == ValidFromNoRecompute(c, d, 2)

\* is_chain_valid recomputing the hash before it compares previous_hash
RECURSIVE ValidFromHashFirst(_, _, _)
ValidFromHashFirst(c, d, i) ==
    IF i > Len(c) THEN Result(TRUE, "Chain is valid.", -1)
    ELSE LET current == c[i]
             previous == c[i - 1]
         IN  IF ComputeHash(current) # current.hash
             THEN Result(FALSE, "hash mismatch.", current.index)
             ELSE IF current.previous_hash # previous.hash
             THEN Result(FALSE, "previous_hash mismatch.", current.index)
             ELSE IF ~StartsWith(current.hash, Target(d))
             THEN Result(FALSE, "does not meet difficulty.", current.index)
             ELSE ValidFromHashFirst(c, d, i + 1)

IsChainValidHashFirst(c, d) == ValidFromHashFirst(c, d, 2)

IsChainValid(c, d) == ValidFrom(c, d, 2)

\* is_chain_valid storing the hash it recomputes
ValidateRepairs ==
    /\ pc = "idle"
    /\ call' = Call("is_chain_valid", 0, "")
    /\ ret' = IsChainValid(chain, difficulty)
    /\ chain' = [p \in DOMAIN chain |->
                   [chain[p] EXCEPT !.hash = ComputeHash(chain[p])]]
    /\ before' = chain
    /\ UNCHANGED <<difficulty, pc, new_block>>

Validate ==
    /\ pc = "idle"
    /\ call' = Call("is_chain_valid", 0, "")
    /\ ret' = IsChainValid(chain, difficulty)
    /\ before' = chain
    /\ UNCHANGED <<chain, difficulty, pc, new_block>>

\* tamper_with_block refusing only the negative indices
TamperAllowGenesis ==
    /\ pc = "idle"
    /\ \E index \in -1..(Len(chain) + 1), new_data \in Payloads :
         /\ call' = Call("tamper_with_block", index, new_data)
         /\ IF index < 0 \/ index >= Len(chain)
            THEN /\ ret' = [NoRet EXCEPT !.raised = "IndexError"]
                 /\ UNCHANGED chain
            ELSE /\ chain' = [chain EXCEPT ![index + 1].data = new_data]
                 /\ ret' = NoRet
    /\ before' = chain
    /\ UNCHANGED <<difficulty, pc, new_block>>

\* tamper_with_block recomputing the hash of the block
TamperRehash ==
    /\ pc = "idle"
    /\ \E index \in -1..(Len(chain) + 1), new_data \in Payloads :
         /\ call' = Call("tamper_with_block", index, new_data)
         /\ IF index <= 0 \/ index >= Len(chain)
            THEN /\ ret' = [NoRet EXCEPT !.raised = "IndexError"]
                 /\ UNCHANGED chain
            ELSE /\ chain' = [chain EXCEPT ![index + 1] =
                        [@ EXCEPT !.data = new_data,
                                  !.hash = ComputeHash([chain[index + 1]
                                                 EXCEPT !.data = new_data])]]
                 /\ ret' = NoRet
    /\ before' = chain
    /\ UNCHANGED <<difficulty, pc, new_block>>

\* tamper_with_block putting a new Block in the place of the old one
TamperNewBlock ==
    /\ pc = "idle"
    /\ \E index \in -1..(Len(chain) + 1), new_data \in Payloads :
         /\ call' = Call("tamper_with_block", index, new_data)
         /\ IF index <= 0 \/ index >= Len(chain)
            THEN /\ ret' = [NoRet EXCEPT !.raised = "IndexError"]
                 /\ UNCHANGED chain
            ELSE /\ chain' = [chain EXCEPT ![index + 1] =
                        Block(@.index, @.timestamp, new_data, @.previous_hash, 0)]
                 /\ ret' = NoRet
    /\ before' = chain
    /\ UNCHANGED <<difficulty, pc, new_block>>

\* tamper_with_block(index, new_data); index is an index of the Python list
Tamper ==
    /\ pc = "idle"
    /\ \E index \in -1..(Len(chain) + 1), new_data \in Payloads :
         /\ call' = Call("tamper_with_block", index, new_data)
         /\ IF index <= 0 \/ index >= Len(chain)
            THEN /\ ret' = [NoRet EXCEPT !.raised = "IndexError"]
                 /\ UNCHANGED chain
            ELSE /\ chain' = [chain EXCEPT ![index + 1].data = new_data]
                 /\ ret' = NoRet
    /\ before' = chain
    /\ UNCHANGED <<difficulty, pc, new_block>>

\* sum(b.nonce for b in blocks)
RECURSIVE SumNonces(_)
SumNonces(blocks) ==
    IF blocks = <<>> THEN 0 ELSE blocks[1].nonce + SumNonces(Tail(blocks))

\* average_nonce counting the genesis block as well
AverageNonceAll ==
    /\ pc = "idle"
    /\ call' = Call("average_nonce", 0, "")
    /\ ret' = IF Len(chain) <= 1
              THEN [NoRet EXCEPT !.average = <<0, 1>>]
              ELSE [NoRet EXCEPT !.average = <<SumNonces(chain), Len(chain)>>]
    /\ before' = chain
    /\ UNCHANGED <<chain, difficulty, pc, new_block>>

\* average_nonce; the float it returns is the pair <<numerator, denominator>>
\* of the true division, 0.0 being <<0, 1>>
AverageNonce ==
    /\ pc = "idle"
    /\ call' = Call("average_nonce", 0, "")
    /\ ret' = IF Len(chain) <= 1
              THEN [NoRet EXCEPT !.average = <<0, 1>>]
              ELSE [NoRet EXCEPT !.average = <<SumNonces(Tail(chain)),
                                              Len(chain) - 1>>]
    /\ before' = chain
    /\ UNCHANGED <<chain, difficulty, pc, new_block>>

Next == AddBlock \/ ProofOfWork \/ Validate \/ Tamper \/ AverageNonce

Spec == Init /\ [][Next]_vars

\* the runs with no tamper_with_block call
NextNoTamper == AddBlock \/ ProofOfWork \/ Validate

SpecNoTamper == Init /\ [][NextNoTamper]_vars

----------------------------------------------------------------------------
(* is_chain_valid as a function of any chain: the fields of the blocks are *)
(* drawn from small sets, so that each of its three checks can fail at any *)
(* position.                                                               *)

ArbHashes == {<<0, 0>>, <<0, 7>>}

ArbBlocks(index) ==
    UNION {LET b == Block(index, 1, "'A'", prev, nonce)
           IN  {b} \cup {[b EXCEPT !.hash = h] : h \in ArbHashes} :
           prev \in ArbHashes, nonce \in 0..1}

RECURSIVE ArbChains(_)
ArbChains(n) ==
    IF n = 0 THEN {<<>>}
    ELSE {Append(c, b) : c \in ArbChains(n - 1), b \in ArbBlocks(n - 1)}

InitValidate ==
    /\ chain \in UNION {ArbChains(n) : n \in 1..MaxArb}
    /\ difficulty \in 0..HashLen
    /\ pc = "idle"
    /\ new_block = NoBlock
    /\ call = Call("__init__", 0, "")
    /\ ret = NoRet
    /\ before = chain

NextValidate == Validate

SpecValidate == InitValidate /\ [][NextValidate]_vars

----------------------------------------------------------------------------
(* proof_of_work on a block with any starting nonce: the genesis block is  *)
(* built with nonce n, recorded as the argument of the call, and mined;    *)
(* the blocks add_block builds start at nonce 0.  The program is a single  *)
(* thread that stays in the loop until it returns, hence the fairness.     *)

InitMine ==
    /\ chain = <<>>
    /\ difficulty \in 0..MaxDifficulty
    /\ \E t \in Times, n \in 0..MaxStart :
         /\ new_block = Block(0, t, GenesisData, <<0>>, n)
         /\ call = Call("proof_of_work", n, "")
    /\ pc = "create_genesis_block"
    /\ ret = NoRet
    /\ before = chain

NextMine == AddBlock \/ ProofOfWork

SpecMine == InitMine /\ [][NextMine]_vars /\ WF_vars(ProofOfWork)

----------------------------------------------------------------------------
(* Block.__init__ on its own: called with or without the optional          *)
(* arguments previous_hash and nonce; new_block is the block constructed.  *)

\* the defaults of the parameters previous_hash and nonce
DefaultPreviousHash == <<>>

DefaultNonce == 0

InitBlock ==
    /\ chain = <<>>
    /\ difficulty = 0
    /\ pc = "Block"
    /\ new_block = NoBlock
    /\ call = Call("", 0, "")
    /\ ret = NoRet
    /\ before = chain

NewBlock ==
    /\ pc = "Block"
    /\ \E index \in 0..MaxLen, t \in Times, data \in Payloads \cup {GenesisData} :
         \/ /\ new_block' = Block(index, t, data, DefaultPreviousHash, DefaultNonce)
            /\ call' = Call("Block(index, timestamp, data)", index, data)
         \/ \E prev \in ArbHashes \cup {<<0>>} :
              /\ new_block' = Block(index, t, data, prev, DefaultNonce)
              /\ call' = Call("Block(index, timestamp, data, previous_hash)",
                              index, data)
         \/ \E prev \in ArbHashes \cup {<<0>>}, nonce \in 0..MaxStart :
              /\ new_block' = Block(index, t, data, prev, nonce)
              /\ call' = Call("Block(index, timestamp, data, previous_hash, nonce)",
                              index, data)
    /\ UNCHANGED <<chain, difficulty, pc, ret, before>>

NextBlock == NewBlock

SpecBlock == InitBlock /\ [][NextBlock]_vars

----------------------------------------------------------------------------
(* Payloads json.dumps cannot serialise: a Python set raises TypeError in  *)
(* compute_hash, that is in Block.__init__ (add_block) and in              *)
(* is_chain_valid, while tamper_with_block stores it unchecked.            *)

AnyPayloads == Payloads \cup {"{1, 2}"}

CanDump(data) == data # "{1, 2}"

Raise(exception) == [NoRet EXCEPT !.raised = exception]

AddBlockAny ==
    /\ pc = "idle"
    /\ Len(chain) < MaxLen
    /\ \E data \in AnyPayloads, t \in Times :
         /\ call' = Call("add_block", 0, data)
         /\ IF CanDump(data)
            THEN /\ new_block' = Block(last_block.index + 1, t, data,
                                       last_block.hash, 0)
                 /\ pc' = "add_block"
                 /\ UNCHANGED ret
            ELSE /\ ret' = Raise("TypeError")
                 /\ UNCHANGED <<new_block, pc>>
    /\ before' = chain
    /\ UNCHANGED <<chain, difficulty>>

RECURSIVE ValidFromAny(_, _, _)
ValidFromAny(c, d, i) ==
    IF i > Len(c) THEN Result(TRUE, "Chain is valid.", -1)
    ELSE LET current == c[i]
             previous == c[i - 1]
         IN  IF current.previous_hash # previous.hash
             THEN Result(FALSE, "previous_hash mismatch.", current.index)
             ELSE IF ~CanDump(current.data)
             THEN Raise("TypeError")
             ELSE IF ComputeHash(current) # current.hash
             THEN Result(FALSE, "hash mismatch.", current.index)
             ELSE IF ~StartsWith(current.hash, Target(d))
             THEN Result(FALSE, "does not meet difficulty.", current.index)
             ELSE ValidFromAny(c, d, i + 1)

IsChainValidAny(c, d) == ValidFromAny(c, d, 2)

\* is_chain_valid raising the failure it finds
ValidateAnyRaises ==
    /\ pc = "idle"
    /\ call' = Call("is_chain_valid", 0, "")
    /\ ret' = LET r == IsChainValidAny(chain, difficulty)
              IN  IF r.ok THEN r ELSE [r EXCEPT !.raised = "ValueError"]
    /\ before' = chain
    /\ UNCHANGED <<chain, difficulty, pc, new_block>>

ValidateAny ==
    /\ pc = "idle"
    /\ call' = Call("is_chain_valid", 0, "")
    /\ ret' = IsChainValidAny(chain, difficulty)
    /\ before' = chain
    /\ UNCHANGED <<chain, difficulty, pc, new_block>>

TamperAny ==
    /\ pc = "idle"
    /\ \E index \in -1..(Len(chain) + 1), new_data \in AnyPayloads :
         /\ call' = Call("tamper_with_block", index, new_data)
         /\ IF index <= 0 \/ index >= Len(chain)
            THEN /\ ret' = Raise("IndexError")
                 /\ UNCHANGED chain
            ELSE /\ chain' = [chain EXCEPT ![index + 1].data = new_data]
                 /\ ret' = NoRet
    /\ before' = chain
    /\ UNCHANGED <<difficulty, pc, new_block>>

NextAny == AddBlockAny \/ ProofOfWork \/ ValidateAny \/ TamperAny

SpecAny == Init /\ [][NextAny]_vars

----------------------------------------------------------------------------
(* Vocabulary of the properties, defined apart from the model's operators  *)

RECURSIVE LeadingZeros(_)
LeadingZeros(h) ==
    IF h = <<>> \/ h[1] # 0 THEN 0 ELSE 1 + LeadingZeros(Tail(h))

\* position (1-based) of the block of Python index i
Pos(i) == i + 1

Valid == Result(TRUE, "Chain is valid.", -1)

HashMismatchAt(i) == Result(FALSE, "hash mismatch.", i)

Recomputes(b) == Sha256(JsonDumps(b)) = b.hash

TamperCalled == call'.op = "tamper_with_block" /\ vars' # vars

TamperSucceeds == TamperCalled /\ ret'.raised = ""

OutOfRange(i, c) == i <= 0 \/ i >= Len(c)

SameButData(b1, b2) ==
    /\ b1.index = b2.index
    /\ b1.timestamp = b2.timestamp
    /\ b1.previous_hash = b2.previous_hash
    /\ b1.nonce = b2.nonce
    /\ b1.hash = b2.hash

----------------------------------------------------------------------------
(* C1: with no tamper_with_block call, is_chain_valid returns (True,       *)
(* "Chain is valid.") right after construction and after each add_block,   *)
(* for every difficulty for which they return.  Checked under SpecNoTamper.*)
C1_ValidWithoutTamper ==
    /\ pc = "idle" => IsChainValid(chain, difficulty) = Valid
    /\ call.op = "is_chain_valid" => ret = Valid

C1_Witness ==
    /\ call.op = "is_chain_valid"
    /\ ret.ok
    /\ Len(chain) = 3
    /\ difficulty = 2

(* C2 as stated: after any successful tamper_with_block(i, new_data) on a  *)
(* chain that validated, is_chain_valid reports block i's hash mismatch.   *)
C2_Original ==
    [][(pc = "idle" /\ IsChainValid(chain, difficulty).ok /\ TamperSucceeds)
         => IsChainValid(chain', difficulty') = HashMismatchAt(call'.index)]_vars

(* C2 amended: after a successful tamper_with_block(i, new_data) on a chain *)
(* that validated, is_chain_valid reports block i's hash mismatch when the  *)
(* hash recomputed from block i with new_data differs from its stored hash, *)
(* and returns (True, ...) otherwise; it returns (True, ...) whenever       *)
(* new_data serialises to the same JSON text as the data it replaces.       *)
C2_TamperDetected ==
    [][(pc = "idle" /\ IsChainValid(chain, difficulty).ok /\ TamperSucceeds)
         => LET i == call'.index
                r == IsChainValid(chain', difficulty')
            IN  /\ r = IF Recomputes(chain'[Pos(i)]) THEN Valid
                                                      ELSE HashMismatchAt(i)
                /\ JsonData(call'.data) = JsonData(chain[Pos(i)].data)
                      => r = Valid]_vars

C2_Witness ==
    /\ call.op = "tamper_with_block"
    /\ ret.raised = ""
    /\ pc = "idle"
    /\ Len(chain) = 3
    /\ call.index = 1
    /\ call.data = "(1, 2)"
    /\ chain[2].data = call.data
    /\ IsChainValid(chain, difficulty) = HashMismatchAt(1)
    /\ Recomputes(chain[3])

(* C3: tamper_with_block(index, new_data) with index <= 0 or index >=      *)
(* len(chain) raises IndexError and leaves the chain (its length, every    *)
(* field of every block) and the difficulty as they were.                  *)
C3_TamperOutOfRange ==
    [][(TamperCalled /\ OutOfRange(call'.index, chain))
         => /\ ret'.raised = "IndexError"
            /\ chain' = chain
            /\ difficulty' = difficulty]_vars

C3_Witness ==
    /\ call.op = "tamper_with_block"
    /\ call.index = 0
    /\ ret.raised = "IndexError"
    /\ Len(chain) >= 2

(* C4: a successful tamper_with_block(i, new_data) sets the data of block i *)
(* to new_data and changes nothing else: the other fields of block i, every *)
(* other block, the length of the chain and the difficulty are unchanged.   *)
C4_TamperFrame ==
    [][TamperSucceeds
         => /\ Len(chain') = Len(chain)
            /\ difficulty' = difficulty
            /\ ~OutOfRange(call'.index, chain)
            /\ chain'[Pos(call'.index)].data = call'.data
            /\ SameButData(chain'[Pos(call'.index)], chain[Pos(call'.index)])
            /\ \A p \in 1..Len(chain) :
                  p # Pos(call'.index) => chain'[p] = chain[p]]_vars

C4_Witness ==
    /\ call.op = "tamper_with_block"
    /\ ret.raised = ""
    /\ call.index = 2
    /\ chain[3].data = call.data
    /\ ~Recomputes(chain[3])
    /\ chain[3].nonce > 0

(* C5: with no tamper_with_block call, every block of the chain, genesis   *)
(* included, has compute_hash() equal to its stored hash.  Checked under   *)
(* SpecNoTamper.                                                           *)
C5_HashesRecompute ==
    \A p \in 1..Len(chain) : Recomputes(chain[p])

C5_Witness ==
    /\ Len(chain) = 3
    /\ difficulty = 1
    /\ chain[1].nonce > 0
    /\ chain[3].nonce > 0

(* C6: in every reachable state the stored hash of every block of the      *)
(* chain, genesis included, starts with at least `difficulty` zeros.       *)
C6_DifficultyPrefix ==
    \A p \in 1..Len(chain) : LeadingZeros(chain[p].hash) >= difficulty

C6_Witness ==
    /\ difficulty = 2
    /\ Len(chain) = 3
    /\ ~Recomputes(chain[2])
    /\ LeadingZeros(chain[3].hash) = 2

(* C7: is_chain_valid returns (True, ...) iff every block at positions      *)
(* 1..len-1 passes the three checks; otherwise it reports the block at the  *)
(* lowest failing position and, for it, the first failing check in the      *)
(* order previous_hash, recomputed hash, difficulty prefix.  Checked under  *)
(* SpecValidate, over chains in which every check can fail anywhere.        *)
PrevBad(p) == chain[p].previous_hash # chain[p - 1].hash

HashBad(p) == ~Recomputes(chain[p])

PrefixBad(p) == LeadingZeros(chain[p].hash) < difficulty

Failing == {p \in 2..Len(chain) : PrevBad(p) \/ HashBad(p) \/ PrefixBad(p)}

C7_FailFastOrdered ==
    call.op = "is_chain_valid"
      => /\ ret.ok <=> Failing = {}
         /\ Failing = {} => ret = Valid
         /\ Failing # {}
              => LET p == CHOOSE q \in Failing : \A o \in Failing : q <= o
                 IN  /\ ret.index = chain[p].index
                     /\ ret.message =
                           IF PrevBad(p) THEN "previous_hash mismatch."
                           ELSE IF HashBad(p) THEN "hash mismatch."
                           ELSE "does not meet difficulty."

C7_Witness ==
    /\ call.op = "is_chain_valid"
    /\ Len(chain) = 3
    /\ ret.message = "does not meet difficulty."
    /\ ret.index = 1
    /\ PrevBad(3)
    /\ HashBad(3)

(* C8: is_chain_valid changes no block, nor the length or the difficulty,  *)
(* and a call that follows another with no add_block or tamper between     *)
(* them returns the same result.                                           *)
C8_ValidatePure ==
    [][(pc = "idle" /\ call'.op = "is_chain_valid")
         => /\ chain' = chain
            /\ difficulty' = difficulty
            /\ call.op = "is_chain_valid" => ret' = ret]_vars

C8_Witness ==
    /\ call.op = "is_chain_valid"
    /\ ~ret.ok
    /\ ret.index = 1
    /\ ~Recomputes(chain[2])

(* C9: add_block(data) appends exactly one block, with index = the former  *)
(* tail's index + 1, previous_hash = the former tail's stored hash and     *)
(* data = the payload; the returned index, hash and nonce are those of the *)
(* new tail.                                                               *)
C9_AddBlock ==
    [][/\ (pc = "idle" /\ pc' = "add_block") => chain' = chain
       /\ (pc = "add_block" /\ pc' = "add_block") => chain' = chain
       /\ (pc = "add_block" /\ pc' = "idle")
            => /\ Len(chain') = Len(chain) + 1
               /\ SubSeq(chain', 1, Len(chain)) = chain
               /\ LET tail == chain'[Len(chain')]
                       former == chain[Len(chain)]
                   IN  /\ tail.index = former.index + 1
                       /\ tail.previous_hash = former.hash
                       /\ tail.data = call.data
                       /\ ret'.index = tail.index
                       /\ ret'.hash = tail.hash
                       /\ ret'.nonce = tail.nonce]_vars

C9_Witness ==
    /\ call.op = "add_block"
    /\ pc = "idle"
    /\ Len(chain) = 3
    /\ ~Recomputes(chain[2])
    /\ ret.nonce > 0
    /\ ret.hash = chain[3].hash

(* C10: the length of the chain never decreases, no block is removed or    *)
(* reordered, and the index, timestamp, previous_hash, nonce and stored    *)
(* hash of a block of the chain never change; its data changes only in a   *)
(* tamper_with_block call on that block.                                   *)
C10_AppendOnly ==
    [][/\ Len(chain') >= Len(chain)
       /\ \A p \in 1..Len(chain) :
            /\ SameButData(chain'[p], chain[p])
            /\ chain'[p].data # chain[p].data
                 => TamperSucceeds /\ Pos(call'.index) = p]_vars

C10_Witness ==
    /\ Len(chain) = 3
    /\ chain[2].nonce > 0
    /\ ~Recomputes(chain[2])
    /\ call.op = "add_block"
    /\ pc = "idle"

(* C11: average_nonce returns 0 on a chain of the genesis block alone, and *)
(* otherwise the sum of the nonces of the blocks after genesis divided by  *)
(* len(chain) - 1; it changes neither the chain nor the difficulty.        *)
RECURSIVE NonceTotal(_, _)
NonceTotal(c, p) == IF p < 2 THEN 0 ELSE c[p].nonce + NonceTotal(c, p - 1)

C11_AverageNonce ==
    [][(pc = "idle" /\ call'.op = "average_nonce")
         => /\ chain' = chain
            /\ difficulty' = difficulty
            /\ ret'.raised = ""
            /\ LET a == ret'.average
               IN  /\ a[2] > 0
                   /\ IF Len(chain) = 1
                      THEN a[1] = 0
                      ELSE a[1] * (Len(chain) - 1)
                             = NonceTotal(chain, Len(chain)) * a[2]]_vars

C11_Witness ==
    /\ call.op = "average_nonce"
    /\ Len(chain) = 3
    /\ chain[1].nonce > 0
    /\ chain[2].nonce # chain[3].nonce
    /\ ret.average = <<chain[2].nonce + chain[3].nonce, 2>>

\* the hash of block b with nonce n has the difficulty prefix
Meets(b, n) ==
    LeadingZeros(Sha256(JsonDumps([b EXCEPT !.nonce = n]))) >= difficulty

\* the loop can still find a nonce
Findable == \E n \in new_block.nonce..MaxNonce : Meets(new_block, n)

(* C12 as stated: for every difficulty >= 0 the mining loop returns, so    *)
(* construction and every add_block complete.  The loop tests the nonces   *)
(* in order and returns at the first that meets the target, so it returns  *)
(* exactly if there is one: whenever it runs, a nonce from the current one *)
(* on meets the target.                                                    *)
C12_Original == pc # "idle" => Findable

(* C12 amended: the mining loop returns, and construction or add_block     *)
(* appends its block, exactly when some nonce from the block's starting    *)
(* nonce on gives a hash with `difficulty` leading zeros; none does when   *)
(* difficulty exceeds the length of a hex digest, and construction with    *)
(* such a difficulty never returns.  Checked under SpecMine.               *)
C12_Converges ==
    /\ (pc # "idle" /\ Findable) ~> (pc = "idle")
    /\ [](pc # "idle" /\ ~Findable => [](pc # "idle"))
    /\ [](difficulty > HashLen => pc # "idle" /\ ~Findable)

C12_Witness ==
    /\ pc = "idle"
    /\ difficulty = HashLen
    /\ Len(chain) = 3
    /\ chain[1].nonce > 0
    /\ chain[3].nonce > 0

(* C13: proof_of_work returns with the least nonce, from the block's       *)
(* starting nonce on (tested first), whose hash has `difficulty` leading   *)
(* zeros; the block then holds that nonce and the returned hash, which is  *)
(* its compute_hash(), and no other field of the block has changed.        *)
(* Checked under SpecMine, where the starting nonce is any of 0..MaxStart. *)
StartNonce == IF call.op = "proof_of_work" THEN call.index ELSE 0

SameButNonceHash(b1, b2) ==
    /\ b1.index = b2.index
    /\ b1.timestamp = b2.timestamp
    /\ b1.data = b2.data
    /\ b1.previous_hash = b2.previous_hash

C13_LeastNonce ==
    [][/\ (pc # "idle" /\ pc' = pc /\ vars' # vars)
            => /\ SameButNonceHash(new_block', new_block)
               /\ new_block'.nonce = new_block.nonce + 1
               /\ ~Meets(new_block, new_block.nonce)
       /\ (pc # "idle" /\ pc' = "idle")
            => LET b == chain'[Len(chain')]
               IN  /\ SameButNonceHash(b, new_block)
                   /\ b.nonce = new_block.nonce
                   /\ b.nonce >= StartNonce
                   /\ Meets(b, b.nonce)
                   /\ \A n \in StartNonce..(b.nonce - 1) : ~Meets(b, n)
                   /\ Recomputes(b)
                   /\ difficulty = 0 => b.nonce = StartNonce
                   /\ pc = "add_block"
                        => ret'.hash = b.hash /\ ret'.nonce = b.nonce]_vars

C13_Witness ==
    /\ pc = "idle"
    /\ call.op = "proof_of_work"
    /\ call.index = 2
    /\ difficulty = 1
    /\ chain[1].nonce > 2
    /\ \E n \in 0..1 : Meets(chain[1], n)

(* C14: in every reachable state the block at position i of the chain has  *)
(* index i: 0 for genesis, then one more per block; the block being mined  *)
(* has the index of the position it will take.                             *)
C14_IndexIsPosition ==
    /\ \A p \in 1..Len(chain) : chain[p].index = p - 1
    /\ pc # "idle" => new_block.index = Len(chain)

C14_Witness ==
    /\ Len(chain) = 3
    /\ chain[3].index = 2
    /\ chain[3].data # chain[2].data
    /\ ~Recomputes(chain[3])
    /\ pc = "idle"

(* C15: once the constructor has returned the chain is never empty and its *)
(* first block has index 0, data "Genesis Block" and previous_hash "0"; no *)
(* step of add_block, tamper_with_block, is_chain_valid or average_nonce   *)
(* changes that block.                                                     *)
C15_Genesis ==
    [][/\ pc' # "create_genesis_block"
            => /\ Len(chain') >= 1
               /\ chain'[1].index = 0
               /\ chain'[1].data = "'Genesis Block'"
               /\ chain'[1].previous_hash = <<0>>
       /\ Len(chain) >= 1 => chain'[1] = chain[1]]_vars

C15_Witness ==
    /\ call.op = "tamper_with_block"
    /\ call.index = 0
    /\ ret.raised = "IndexError"
    /\ Len(chain) = 3
    /\ ~Recomputes(chain[2])
    /\ chain[1].data = "'Genesis Block'"
    /\ chain[1].nonce > 0

(* C18: in every reachable state each block after genesis has              *)
(* previous_hash equal to the stored hash of the block before it, also     *)
(* after tampering, so is_chain_valid fails only with the hash mismatch:   *)
(* the previous_hash mismatch and the difficulty failure are unreachable.  *)
C18_LinkageSurvives ==
    /\ \A p \in 2..Len(chain) : chain[p].previous_hash = chain[p - 1].hash
    /\ (call.op = "is_chain_valid" /\ ~ret.ok) => ret.message = "hash mismatch."
    /\ pc = "idle" => IsChainValid(chain, difficulty).message
                         \in {"Chain is valid.", "hash mismatch."}

C18_Witness ==
    /\ call.op = "is_chain_valid"
    /\ ~ret.ok
    /\ Len(chain) = 3
    /\ ~Recomputes(chain[2])
    /\ ~Recomputes(chain[3])
    /\ difficulty = 2

(* C19: once is_chain_valid fails, no step of an add_block call changes    *)
(* its result, also when the new block is linked onto a tampered tail: it  *)
(* keeps reporting the hash mismatch of the lowest-positioned block whose  *)
(* recomputed hash differs from its stored hash.                           *)
AddBlockStep == call'.op = "add_block" /\ vars' # vars

Mismatched(c) == {p \in 2..Len(c) : ~Recomputes(c[p])}

C19_DetectionPersists ==
    [][(AddBlockStep /\ ~IsChainValid(chain, difficulty).ok)
         => LET r == IsChainValid(chain', difficulty')
            IN  /\ r = IsChainValid(chain, difficulty)
                /\ r.message = "hash mismatch."
                /\ Mismatched(chain') # {}
                /\ \A p \in Mismatched(chain') : r.index <= chain'[p].index
                /\ \E p \in Mismatched(chain') : r.index = chain'[p].index]_vars

C19_Witness ==
    /\ call.op = "add_block"
    /\ pc = "idle"
    /\ Len(chain) = 3
    /\ before = SubSeq(chain, 1, 2)
    /\ ~IsChainValid(before, difficulty).ok
    /\ chain[3].previous_hash = chain[2].hash
    /\ IsChainValid(chain, difficulty) = HashMismatchAt(1)

FailureKinds ==
    {"previous_hash mismatch.", "hash mismatch.", "does not meet difficulty."}

C16_Original ==
    call.op = "is_chain_valid"
      => /\ ret.raised = ""
         /\ ~ret.ok => ret.message \in FailureKinds

(* C16 amended: in every reachable state in which the data of every block  *)
(* is JSON-serialisable, also after a successful tamper_with_block with a  *)
(* serialisable payload, is_chain_valid returns a pair and does not raise, *)
(* and a failure names one of the three failure kinds; with a payload      *)
(* json.dumps rejects in the chain it raises TypeError or returns such a   *)
(* pair.  Checked under SpecAny.                                           *)
Dumpable == {"'Genesis Block'", "'A'", "[1, 2]", "(1, 2)"}

C16_NeverThrown ==
    call.op = "is_chain_valid"
      => /\ (\A p \in 1..Len(chain) : chain[p].data \in Dumpable)
              => ret.raised = ""
         /\ ret.raised \in {"", "TypeError"}
         /\ (ret.raised = "" /\ ~ret.ok) => ret.message \in FailureKinds
         /\ (ret.raised = "" /\ ret.ok) => ret.message = "Chain is valid."

C16_Witness ==
    /\ call.op = "is_chain_valid"
    /\ ret.raised = ""
    /\ ~ret.ok
    /\ ret.message = "hash mismatch."
    /\ ret.index = 2
    /\ Len(chain) = 3
    /\ \A p \in 1..3 : chain[p].data \in Dumpable
    /\ chain[3].data = "[1, 2]"

(* C17 as stated: a Block constructed without previous_hash and nonce gets *)
(* "0" as previous_hash and 0 as nonce, and its hash is compute_hash().    *)
C17_Original ==
    call.op = "Block(index, timestamp, data)"
      => /\ new_block.previous_hash = <<0>>
         /\ new_block.nonce = 0
         /\ Recomputes(new_block)

(* C17 amended: a Block constructed without previous_hash and nonce gets   *)
(* the empty string as previous_hash and 0 as nonce, and its hash is set   *)
(* at construction to compute_hash() of its fields.  Checked under         *)
(* SpecBlock.                                                              *)
C17_BlockDefaults ==
    /\ call.op = "Block(index, timestamp, data)"
         => /\ new_block.previous_hash = <<>>
            /\ new_block.nonce = 0
    /\ call.op # ""
         => /\ new_block.index = call.index
            /\ new_block.data = call.data
            /\ Recomputes(new_block)

C17_Witness ==
    /\ call.op = "Block(index, timestamp, data)"
    /\ new_block.index = 2
    /\ new_block.data = "(1, 2)"
    /\ new_block.previous_hash = <<>>
    /\ new_block.hash # <<>>

====
